---------------------------- MODULE Spec2Model ----------------------------
(***************************************************************************)
(* A model of the freedesktop-apps crate: the Desktop Entry document       *)
(* parser (parser.rs) and the launch planner (lib.rs).                     *)
(*                                                                         *)
(* Text is modelled character by character.  A Rust &str / String is a     *)
(* TLA+ string, a char is a string of length 1, and the only operators     *)
(* used on strings are Len, SubSeq and \o.  A Vec<String> is a sequence of *)
(* strings.  A HashMap is a function whose DOMAIN is the set of its keys.  *)
(***************************************************************************)
EXTENDS Integers, Sequences, FiniteSets, TLC

VARIABLES
    line_num,       \* from_path: number of lines read so far (the enumerate index)
    current_group,  \* from_path: Option<String>, the group the next field goes to
    groups,         \* entry.groups: the document under construction in from_path,
                    \* then the document of the ApplicationEntry (after an Err:
                    \* what had been read when from_path gave up)
    status,         \* "parsing", or what try_from_path returned
    app,            \* whether the caller holds an ApplicationEntry, and its path
    pc,             \* position inside prepare_command ("idle" outside of it)
    files,          \* prepare_command: argument files
    urls,           \* prepare_command: argument urls
    env,            \* the process environment and file system prepare_command reads
    plan,           \* prepare_command: (program, args) as computed so far
    result,         \* prepare_command: what it returned
    lookup,         \* the last get_localized_string call and what it returned
    arg,            \* the text handed to a function of the crate called on its own
    ret,            \* that function's name and what it returned
    consumed        \* the lines of the file read so far, where a specification
                    \* keeps a record of them (<<>> where it keeps none)

vars == <<line_num, current_group, groups, status, app,
          pc, files, urls, env, plan, result, lookup, arg, ret, consumed>>

-----------------------------------------------------------------------------
(* Bounds of the model *)

\* lines read from one file in the launch specification
MaxLines == 6
\* lines read from one file in the parser specification
MaxLinesParse == 5
\* lines read from one file in the locale specification
MaxLinesLocale == 8
\* lines read from one file in the specification that records the file
MaxLinesFile == 4
\* length of a file argument handed to prepare_command
MaxArgLen == 2
\* length of a text handed to a function called on its own
MaxTextLen == 4

\* the number of lines of a file with unusual group and key names
MaxLinesNames == 4

-----------------------------------------------------------------------------
(* Strings *)

At(s, i) == SubSeq(s, i, i)

From(s, i) == SubSeq(s, i, Len(s))

MinOf(S) == CHOOSE x \in S : \A y \in S : x <= y

MaxOf(S) == CHOOSE x \in S : \A y \in S : y <= x

\* str::find(char): the index of the first occurrence, 0 for None
Find(s, c) ==
    LET hits == {i \in 1..Len(s) : At(s, i) = c}
    IN  IF hits = {} THEN 0 ELSE MinOf(hits)

Contains(s, c) == Find(s, c) # 0

\* char::is_whitespace, on the characters the model uses
WhiteSpace == {" ", "\t", "\n", "\r"}

\* str::trim
Trim(s) ==
    LET keep == {i \in 1..Len(s) : At(s, i) \notin WhiteSpace}
    IN  IF keep = {} THEN "" ELSE SubSeq(s, MinOf(keep), MaxOf(keep))

UpperStr == "ABCDEFGHIJKLMNOPQRSTUVWXYZ"

LowerStr == "abcdefghijklmnopqrstuvwxyz"

DigitStr == "0123456789"

CharsOf(s) == {At(s, i) : i \in 1..Len(s)}

Digits == CharsOf(DigitStr)

\* char::is_ascii_alphanumeric
AsciiAlnum == CharsOf(UpperStr) \cup CharsOf(LowerStr) \cup Digits

ToLowerChar(c) ==
    LET i == Find(UpperStr, c) IN IF i = 0 THEN c ELSE At(LowerStr, i)

RECURSIVE ToLower(_)
\* str::to_lowercase
ToLower(s) ==
    IF s = "" THEN "" ELSE ToLowerChar(At(s, 1)) \o ToLower(From(s, 2))

RECURSIVE Replace(_, _, _)
\* str::replace(char, &str)
Replace(s, c, by) ==
    IF s = "" THEN ""
    ELSE (IF At(s, 1) = c THEN by ELSE At(s, 1)) \o Replace(From(s, 2), c, by)

RECURSIVE Split(_, _)
\* str::split(char), collected
Split(s, c) ==
    LET i == Find(s, c)
    IN  IF i = 0 THEN <<s>> ELSE <<SubSeq(s, 1, i - 1)>> \o Split(From(s, i + 1), c)

StartsWith(s, p) == Len(s) >= Len(p) /\ SubSeq(s, 1, Len(p)) = p

RECURSIVE StringsOfLen(_, _)
StringsOfLen(A, n) ==
    IF n = 0 THEN {""} ELSE {c \o s : c \in A, s \in StringsOfLen(A, n - 1)}

StringsUpTo(A, n) == UNION {StringsOfLen(A, k) : k \in 1..n}

-----------------------------------------------------------------------------
(* HashMap *)

EmptyMap == [k \in {} |-> k]

MapPut(m, k, v) == [x \in (DOMAIN m) \cup {k} |-> IF x = k THEN v ELSE m[x]]

-----------------------------------------------------------------------------
(* parser.rs: ValueType and parse_value *)

\* The variants of ValueType that parse_value builds.  Every value has the
\* same four fields; only the field of its variant is meaningful.  A Numeric
\* keeps the text that parsed as an f64.
VString(s) == [t |-> "String", s |-> s, b |-> FALSE, l |-> <<>>]

VBoolean(b) == [t |-> "Boolean", s |-> "", b |-> b, l |-> <<>>]

VNumeric(s) == [t |-> "Numeric", s |-> s, b |-> FALSE, l |-> <<>>]

VStringList(l) == [t |-> "StringList", s |-> "", b |-> FALSE, l |-> l]

RECURSIVE unescape_value_drops_unknown(_)
\* unescape_value that drops the backslash of an escape it does not know
unescape_value_drops_unknown(value) ==
    IF value = "" THEN ""
    ELSE IF At(value, 1) = "\\"
    THEN IF Len(value) >= 2
         THEN LET next_ch == At(value, 2)
              IN  (CASE next_ch = "s" -> " "
                     [] next_ch = "n" -> "\n"
                     [] next_ch = "t" -> "\t"
                     [] next_ch = "r" -> "\r"
                     [] next_ch = "\\" -> "\\"
                     [] next_ch = ";" -> ";"
                     [] OTHER -> next_ch)
                  \o unescape_value_drops_unknown(From(value, 3))
         ELSE "\\"
    ELSE At(value, 1) \o unescape_value_drops_unknown(From(value, 2))

RECURSIVE unescape_value(_)
unescape_value(value) ==
    IF value = "" THEN ""
    ELSE IF At(value, 1) = "\\"
    THEN IF Len(value) >= 2
         THEN LET next_ch == At(value, 2)
              IN  (CASE next_ch = "s" -> " "
                     [] next_ch = "n" -> "\n"
                     [] next_ch = "t" -> "\t"
                     [] next_ch = "r" -> "\r"
                     [] next_ch = "\\" -> "\\"
                     [] next_ch = ";" -> ";"
                     [] OTHER -> "\\" \o next_ch)
                  \o unescape_value(From(value, 3))
         ELSE "\\"
    ELSE At(value, 1) \o unescape_value(From(value, 2))

AllDigits(s) == \A i \in 1..Len(s) : At(s, i) \in Digits

StripSign(s) == IF s # "" /\ At(s, 1) \in {"+", "-"} THEN From(s, 2) ELSE s

\* Digit+ | Digit+ '.' Digit* | Digit* '.' Digit+
IsMantissa(m) ==
    LET d == Find(m, ".")
    IN  IF d = 0 THEN m # "" /\ AllDigits(m)
        ELSE LET a == SubSeq(m, 1, d - 1)
                 b == From(m, d + 1)
             IN  AllDigits(a) /\ AllDigits(b) /\ (a # "" \/ b # "")

\* Number Exp?, Exp ::= 'e' Sign? Digit+, case-insensitive
IsNumber(s) ==
    LET e == Find(ToLower(s), "e")
    IN  IF e = 0 THEN IsMantissa(s)
        ELSE /\ IsMantissa(SubSeq(s, 1, e - 1))
             /\ LET x == StripSign(From(s, e + 1)) IN x # "" /\ AllDigits(x)

\* str::parse::<f64>().is_ok(): Sign? ('inf' | 'infinity' | 'nan' | Number)
parses_as_f64(s) ==
    LET u == StripSign(s)
    IN  ToLower(u) \in {"inf", "infinity", "nan"} \/ IsNumber(u)

\* the push of one finished item that keeps an item that is empty
push_item_keeps_empty(items, current_item) ==
    Append(items, unescape_value(Trim(current_item)))

\* split_semicolon_list: the push of one finished item
push_item(items, current_item) ==
    LET trimmed == Trim(current_item)
    IN  IF trimmed # "" THEN Append(items, unescape_value(trimmed)) ELSE items

RECURSIVE split_loop(_, _, _)
\* split_semicolon_list: the loop over the remaining characters
split_loop(rest, current_item, items) ==
    IF rest = "" THEN push_item(items, current_item)
    ELSE LET ch == At(rest, 1)
         IN  IF ch = "\\"
             THEN IF Len(rest) >= 2
                  THEN IF At(rest, 2) = ";"
                       THEN split_loop(From(rest, 3), current_item \o ";", items)
                       ELSE split_loop(From(rest, 3),
                                       current_item \o ch \o At(rest, 2), items)
                  ELSE split_loop("", current_item \o ch, items)
             ELSE IF ch = ";"
             THEN split_loop(From(rest, 2), "", push_item(items, current_item))
             ELSE split_loop(From(rest, 2), current_item \o ch, items)

split_semicolon_list(value) == split_loop(value, "", <<>>)

parse_value(value) ==
    LET unescaped == unescape_value(value)
        lowered == ToLower(unescaped)
    IN  IF lowered = "true" THEN VBoolean(TRUE)
        ELSE IF lowered = "false" THEN VBoolean(FALSE)
        ELSE IF parses_as_f64(unescaped) THEN VNumeric(unescaped)
        ELSE IF Contains(value, ";") THEN VStringList(split_semicolon_list(value))
        ELSE VString(unescaped)

-----------------------------------------------------------------------------
(* parser.rs: LocalizedKey, DesktopEntryGroup *)

None == [some |-> FALSE, v |-> ""]

Some(x) == [some |-> TRUE, v |-> x]

\* Option<&ValueType>::None
NoneV == [some |-> FALSE, v |-> VString("")]

\* LocalizedKey::parse: the key and the Option<String> locale
LocalizedKey_parse(input) ==
    LET bracket_start == Find(input, "[")
        bracket_end == Find(input, "]")
    IN  IF bracket_start # 0 /\ bracket_end # 0 /\ bracket_start < bracket_end
        THEN [key |-> SubSeq(input, 1, bracket_start - 1),
              locale |-> Some(SubSeq(input, bracket_start + 1, bracket_end - 1))]
        ELSE [key |-> input, locale |-> None]

\* DesktopEntryGroup::new
NewGroup(name) == [name |-> name, fields |-> EmptyMap, localized_fields |-> EmptyMap]

\* insert_field that leaves a key (or a locale of a key) it already holds alone
insert_field_keep_first(group, key, value) ==
    LET localized_key == LocalizedKey_parse(key)
        k == localized_key.key
    IN  IF localized_key.locale.some
        THEN LET old == IF k \in DOMAIN group.localized_fields
                        THEN group.localized_fields[k] ELSE EmptyMap
             IN  IF localized_key.locale.v \in DOMAIN old THEN group
                 ELSE [group EXCEPT !.localized_fields =
                          MapPut(@, k, MapPut(old, localized_key.locale.v, value))]
        ELSE IF k \in DOMAIN group.fields THEN group
        ELSE [group EXCEPT !.fields = MapPut(@, k, value)]

\* DesktopEntryGroup::insert_field
insert_field(group, key, value) ==
    LET localized_key == LocalizedKey_parse(key)
        k == localized_key.key
    IN  IF localized_key.locale.some
        THEN LET old == IF k \in DOMAIN group.localized_fields
                        THEN group.localized_fields[k] ELSE EmptyMap
             IN  [group EXCEPT !.localized_fields =
                      MapPut(@, k, MapPut(old, localized_key.locale.v, value))]
        ELSE [group EXCEPT !.fields = MapPut(@, k, value)]

\* DesktopEntryGroup::get_field: Option<&ValueType>
get_field(group, key) ==
    IF key \in DOMAIN group.fields THEN Some(group.fields[key]) ELSE NoneV

-----------------------------------------------------------------------------
(* parser.rs: DesktopEntry::from_path and validate *)

\* the regex ^\[([^\[\]]+)\]$ matches the line
is_group_header(line) ==
    /\ Len(line) >= 3
    /\ At(line, 1) = "["
    /\ At(line, Len(line)) = "]"
    /\ \A i \in 2..(Len(line) - 1) : At(line, i) \notin {"[", "]"}

\* is_valid_key_name that also lets `_` through
is_valid_key_name_underscore(key) ==
    LET bracket_pos == Find(key, "[")
        base_key == IF bracket_pos # 0 THEN SubSeq(key, 1, bracket_pos - 1) ELSE key
    IN  \A i \in 1..Len(base_key) :
            At(base_key, i) \in AsciiAlnum \cup {"-", "_"}

is_valid_key_name(key) ==
    LET bracket_pos == Find(key, "[")
        base_key == IF bracket_pos # 0 THEN SubSeq(key, 1, bracket_pos - 1) ELSE key
    IN  \A i \in 1..Len(base_key) :
            At(base_key, i) \in AsciiAlnum \/ At(base_key, i) = "-"

\* the checks of validate that follow the Type and Name checks
validate_by_type(desktop_entry, entry_type) ==
    IF entry_type.v.t = "String" /\ entry_type.v.s = "Application"
    THEN LET d == get_field(desktop_entry, "DBusActivatable")
             dbus_activatable == d.some /\ d.v.t = "Boolean" /\ d.v.b
         IN  IF ~dbus_activatable /\ ~get_field(desktop_entry, "Exec").some
             THEN "MissingRequiredKey" ELSE "Ok"
    ELSE IF entry_type.v.t = "String" /\ entry_type.v.s = "Link"
    THEN IF ~get_field(desktop_entry, "URL").some THEN "MissingRequiredKey" ELSE "Ok"
    ELSE "Ok"

\* validate with the Name check satisfied by a localized variant of Name
validate_name_any_locale(gs) ==
    IF "Desktop Entry" \notin DOMAIN gs THEN "MissingRequiredKey"
    ELSE LET desktop_entry == gs["Desktop Entry"]
             entry_type == get_field(desktop_entry, "Type")
         IN  IF ~entry_type.some THEN "MissingRequiredKey"
             ELSE IF /\ ~get_field(desktop_entry, "Name").some
                     /\ "Name" \notin DOMAIN desktop_entry.localized_fields
             THEN "MissingRequiredKey"
             ELSE validate_by_type(desktop_entry, entry_type)

\* validate without the Type check: a missing Type is taken as no special type
validate_type_optional(gs) ==
    IF "Desktop Entry" \notin DOMAIN gs THEN "MissingRequiredKey"
    ELSE LET desktop_entry == gs["Desktop Entry"]
             entry_type == get_field(desktop_entry, "Type")
         IN  IF ~get_field(desktop_entry, "Name").some THEN "MissingRequiredKey"
             ELSE IF ~entry_type.some THEN "Ok"
             ELSE validate_by_type(desktop_entry, entry_type)

\* validate with DBusActivatable taken as true whenever the key is present
validate_dbus_present(gs) ==
    IF "Desktop Entry" \notin DOMAIN gs THEN "MissingRequiredKey"
    ELSE LET desktop_entry == gs["Desktop Entry"]
             entry_type == get_field(desktop_entry, "Type")
         IN  IF ~entry_type.some THEN "MissingRequiredKey"
             ELSE IF ~get_field(desktop_entry, "Name").some THEN "MissingRequiredKey"
             ELSE IF entry_type.v.t = "String" /\ entry_type.v.s = "Application"
             THEN IF /\ ~get_field(desktop_entry, "DBusActivatable").some
                     /\ ~get_field(desktop_entry, "Exec").some
                  THEN "MissingRequiredKey" ELSE "Ok"
             ELSE validate_by_type(desktop_entry, entry_type)

\* DesktopEntry::validate: "Ok" or the kind of ParseError
validate(gs) ==
    IF "Desktop Entry" \notin DOMAIN gs THEN "MissingRequiredKey"
    ELSE LET desktop_entry == gs["Desktop Entry"]
             entry_type == get_field(desktop_entry, "Type")
         IN  IF ~entry_type.some THEN "MissingRequiredKey"
             ELSE IF ~get_field(desktop_entry, "Name").some THEN "MissingRequiredKey"
             ELSE validate_by_type(desktop_entry, entry_type)

\* no caller holds an entry
NoApp == [have |-> FALSE, path |-> ""]

\* the ApplicationEntry held: its inner DesktopEntry
Inner == [path |-> app.path, groups |-> groups]

\* the path handed to from_path / try_from_path
SourcePath == "/usr/share/applications/app.desktop"

\* from_path returns: the loop's locals are gone, the document is handed over
Return(st, entry) ==
    /\ status' = st
    /\ app' = entry
    /\ line_num' = 0
    /\ current_group' = None
    /\ groups' = groups

\* the loop body goes on to the next line
Continue(cg, gs) ==
    /\ line_num' = line_num + 1
    /\ current_group' = cg
    /\ groups' = gs
    /\ UNCHANGED <<status, app>>

\* entry(group_name).or_insert_with(..) that puts a new, empty group under the
\* name whether or not the name is already there
or_insert_with_always(gs, group_name) == MapPut(gs, group_name, NewGroup(group_name))

\* entry.groups.entry(group_name).or_insert_with(|| DesktopEntryGroup::new(..))
or_insert_with(gs, group_name) ==
    IF group_name \in DOMAIN gs THEN gs ELSE MapPut(gs, group_name, NewGroup(group_name))

\* the loop body that skips a key=value line found before any group header
from_path_line_skips_early_pair(raw, max) ==
    /\ status = "parsing"
    /\ line_num < max
    /\ UNCHANGED <<pc, files, urls, env, plan, result, lookup, arg, ret>>
    /\ LET line == Trim(raw)
       IN  IF line = "" \/ StartsWith(line, "#")
           THEN Continue(current_group, groups)
           ELSE IF is_group_header(line)
           THEN LET group_name == SubSeq(line, 2, Len(line) - 1)
                IN  Continue(Some(group_name), or_insert_with(groups, group_name))
           ELSE LET eq_pos == Find(line, "=")
                IN  IF eq_pos = 0
                    THEN Continue(current_group, groups)
                    ELSE LET key == Trim(SubSeq(line, 1, eq_pos - 1))
                             value == Trim(From(line, eq_pos + 1))
                         IN  IF key = ""
                             THEN Continue(current_group, groups)
                             ELSE IF ~is_valid_key_name(key)
                             THEN Return("InvalidFormat", NoApp)
                             ELSE IF current_group.some
                             THEN LET g == current_group.v
                                  IN  Continue(current_group,
                                        IF g \in DOMAIN groups
                                        THEN [groups EXCEPT ![g] =
                                                 insert_field(@, key, parse_value(value))]
                                        ELSE groups)
                             ELSE Continue(current_group, groups)

\* the loop body that refuses a line that holds no `=`
from_path_line_rejects_no_equals(raw, max) ==
    /\ status = "parsing"
    /\ line_num < max
    /\ UNCHANGED <<pc, files, urls, env, plan, result, lookup, arg, ret>>
    /\ LET line == Trim(raw)
       IN  IF line = "" \/ StartsWith(line, "#")
           THEN Continue(current_group, groups)
           ELSE IF is_group_header(line)
           THEN LET group_name == SubSeq(line, 2, Len(line) - 1)
                IN  Continue(Some(group_name), or_insert_with(groups, group_name))
           ELSE LET eq_pos == Find(line, "=")
                IN  IF eq_pos = 0
                    THEN Return("InvalidFormat", NoApp)
                    ELSE LET key == Trim(SubSeq(line, 1, eq_pos - 1))
                             value == Trim(From(line, eq_pos + 1))
                         IN  IF key = ""
                             THEN Continue(current_group, groups)
                             ELSE IF ~is_valid_key_name(key)
                             THEN Return("InvalidFormat", NoApp)
                             ELSE IF current_group.some
                             THEN LET g == current_group.v
                                  IN  Continue(current_group,
                                        IF g \in DOMAIN groups
                                        THEN [groups EXCEPT ![g] =
                                                 insert_field(@, key, parse_value(value))]
                                        ELSE groups)
                             ELSE Return("InvalidFormat", NoApp)

\* One iteration of the loop of DesktopEntry::from_path on the line `raw`
\* (BufRead::lines() has already removed the line terminator).
from_path_line(raw, max) ==
    /\ status = "parsing"
    /\ line_num < max
    /\ UNCHANGED <<pc, files, urls, env, plan, result, lookup, arg, ret>>
    /\ LET line == Trim(raw)
       IN  IF line = "" \/ StartsWith(line, "#")
           THEN Continue(current_group, groups)
           ELSE IF is_group_header(line)
           THEN LET group_name == SubSeq(line, 2, Len(line) - 1)
                IN  Continue(Some(group_name), or_insert_with(groups, group_name))
           ELSE LET eq_pos == Find(line, "=")
                IN  IF eq_pos = 0
                    THEN Continue(current_group, groups)
                    ELSE LET key == Trim(SubSeq(line, 1, eq_pos - 1))
                             value == Trim(From(line, eq_pos + 1))
                         IN  IF key = ""
                             THEN Continue(current_group, groups)
                             ELSE IF ~is_valid_key_name(key)
                             THEN Return("InvalidFormat", NoApp)
                             ELSE IF current_group.some
                             THEN LET g == current_group.v
                                  IN  Continue(current_group,
                                        IF g \in DOMAIN groups
                                        THEN [groups EXCEPT ![g] =
                                                 insert_field(@, key, parse_value(value))]
                                        ELSE groups)
                             ELSE Return("InvalidFormat", NoApp)

\* the loop of from_path reads the line `raw`; no record of the file is kept
ParseLine(raw, max) == from_path_line(raw, max) /\ UNCHANGED consumed

\* the loop of from_path reads the line `raw`, which is recorded in `consumed`
ReadLine(raw, max) == from_path_line(raw, max) /\ consumed' = Append(consumed, raw)

\* File::open or the read of a line fails
ReadError ==
    /\ status = "parsing"
    /\ Return("IoError", NoApp)
    /\ UNCHANGED <<pc, files, urls, env, plan, result, lookup, arg, ret, consumed>>

\* The end of the file: validate, and ApplicationEntry::try_from_path wraps
\* the document on success.
EndOfFile ==
    /\ status = "parsing"
    /\ LET v == validate(groups)
       IN  Return(v, IF v = "Ok" THEN [have |-> TRUE, path |-> SourcePath] ELSE NoApp)
    /\ UNCHANGED <<pc, files, urls, env, plan, result, lookup, arg, ret, consumed>>

\* from_path that wraps what the parser had read when it failed
FromPathFallback_keeps_groups ==
    /\ status \in {"IoError", "InvalidFormat", "MissingRequiredKey"}
    /\ ~app.have
    /\ app' = [have |-> TRUE, path |-> SourcePath]
    /\ UNCHANGED <<line_num, current_group, groups, status,
                   pc, files, urls, env, plan, result, lookup, arg, ret, consumed>>

\* ApplicationEntry::from_path: a failed parse becomes the default entry
FromPathFallback ==
    /\ status \in {"IoError", "InvalidFormat", "MissingRequiredKey"}
    /\ ~app.have
    /\ app' = [have |-> TRUE, path |-> ""]
    /\ groups' = EmptyMap
    /\ UNCHANGED <<line_num, current_group, status,
                   pc, files, urls, env, plan, result, lookup, arg, ret, consumed>>

-----------------------------------------------------------------------------
(* parser.rs: locale resolution *)

\* DesktopEntryGroup::parse_locale_components; the modifier keeps its '@'
parse_locale_components(locale) ==
    LET at_pos == Find(locale, "@")
        base == IF at_pos # 0 THEN SubSeq(locale, 1, at_pos - 1) ELSE locale
        modifier == IF at_pos # 0 THEN Some(From(locale, at_pos)) ELSE None
        under_pos == Find(base, "_")
    IN  [lang |-> IF under_pos # 0 THEN SubSeq(base, 1, under_pos - 1) ELSE base,
         country |-> IF under_pos # 0 THEN Some(From(base, under_pos + 1)) ELSE None,
         modifier |-> modifier]

\* HashMap::get on a map of values
MapGet(m, k) == IF k \in DOMAIN m THEN Some(m[k]) ELSE NoneV

\* the first Some(..) of a sequence of Option values, None when there is none
FirstSome(opts) ==
    LET hits == {i \in 1..Len(opts) : opts[i].some}
    IN  IF hits = {} THEN NoneV ELSE opts[MinOf(hits)]

\* try_locale_fallback that, before the language, takes a variant of the same
\* language with any country
try_locale_fallback_any_country(localized_map, locale) ==
    LET c == parse_locale_components(locale)
        same_lang == {t \in DOMAIN localized_map : StartsWith(t, c.lang \o "_")}
    IN  FirstSome(<<MapGet(localized_map, locale),
                    IF same_lang = {} THEN NoneV
                    ELSE Some(localized_map[CHOOSE t \in same_lang : TRUE]),
                    MapGet(localized_map, c.lang)>>)

\* DesktopEntryGroup::try_locale_fallback
try_locale_fallback(localized_map, locale) ==
    LET dot_pos == Find(locale, ".")
        locale_without_encoding ==
            IF dot_pos # 0 THEN SubSeq(locale, 1, dot_pos - 1) ELSE locale
        c == parse_locale_components(locale_without_encoding)
        lang == c.lang
    IN  IF c.country.some /\ c.modifier.some
        THEN FirstSome(<<MapGet(localized_map, lang \o "_" \o c.country.v \o c.modifier.v),
                         MapGet(localized_map, lang \o "_" \o c.country.v),
                         MapGet(localized_map, lang \o c.modifier.v),
                         MapGet(localized_map, lang)>>)
        ELSE IF c.country.some
        THEN FirstSome(<<MapGet(localized_map, lang \o "_" \o c.country.v),
                         MapGet(localized_map, lang)>>)
        ELSE IF c.modifier.some
        THEN FirstSome(<<MapGet(localized_map, lang \o c.modifier.v),
                         MapGet(localized_map, lang)>>)
        ELSE FirstSome(<<MapGet(localized_map, lang)>>)

\* DesktopEntryGroup::get_localized_field; locale is an Option<&str>
get_localized_field(group, key, locale) ==
    LET base == FirstSome(<<MapGet(group.fields, key)>>)
    IN  IF locale.some /\ key \in DOMAIN group.localized_fields
        THEN LET localized_map == group.localized_fields[key]
             IN  FirstSome(<<MapGet(localized_map, locale.v),
                             try_locale_fallback(localized_map, locale.v),
                             base>>)
        ELSE base

\* DesktopEntry::get_desktop_entry_group
get_desktop_entry_group(a) ==
    IF "Desktop Entry" \in DOMAIN a.groups
    THEN Some(a.groups["Desktop Entry"]) ELSE [some |-> FALSE, v |-> NewGroup("")]

\* the match of get_string / get_localized_string: the text of a String value
string_of(field) ==
    IF field.some /\ field.v.t = "String" THEN Some(field.v.s) ELSE None

\* ApplicationEntry::get_string
get_string(a, key) ==
    LET g == get_desktop_entry_group(a)
    IN  IF g.some THEN string_of(get_field(g.v, key)) ELSE None

\* ApplicationEntry::get_bool
get_bool(a, key) ==
    LET g == get_desktop_entry_group(a)
        f == IF g.some THEN get_field(g.v, key) ELSE NoneV
    IN  IF f.some /\ f.v.t = "Boolean" THEN [some |-> TRUE, v |-> f.v.b]
        ELSE [some |-> FALSE, v |-> FALSE]

\* ApplicationEntry::get_numeric; the number is kept as the text that parsed
get_numeric(a, key) ==
    LET g == get_desktop_entry_group(a)
        f == IF g.some THEN get_field(g.v, key) ELSE NoneV
    IN  IF f.some /\ f.v.t = "Numeric" THEN Some(f.v.s) ELSE None

\* get_vec that also returns a String value, as a list of one element
get_vec_also_strings(a, key) ==
    LET g == get_desktop_entry_group(a)
        f == IF g.some THEN get_field(g.v, key) ELSE NoneV
    IN  IF f.some /\ f.v.t = "StringList" THEN [some |-> TRUE, v |-> f.v.l]
        ELSE IF f.some /\ f.v.t = "String" THEN [some |-> TRUE, v |-> <<f.v.s>>]
        ELSE [some |-> FALSE, v |-> <<>>]

\* ApplicationEntry::get_vec
get_vec(a, key) ==
    LET g == get_desktop_entry_group(a)
        f == IF g.some THEN get_field(g.v, key) ELSE NoneV
    IN  IF f.some /\ f.v.t = "StringList" THEN [some |-> TRUE, v |-> f.v.l]
        ELSE [some |-> FALSE, v |-> <<>>]

\* no function has been called on its own
NoRet == [fn |-> "none"]

NoLookup == [called |-> FALSE, key |-> "", locale |-> None,
             field |-> NoneV, string |-> None]

\* ApplicationEntry::get_localized_string(key, locale) on the entry held
GetLocalizedString(key, locale) ==
    /\ app.have
    /\ LET g == get_desktop_entry_group(Inner)
           f == IF g.some THEN get_localized_field(g.v, key, locale)
                ELSE NoneV
       IN  lookup' = [called |-> TRUE, key |-> key, locale |-> locale,
                      field |-> f, string |-> string_of(f)]
    /\ UNCHANGED <<line_num, current_group, groups, status, app,
                   pc, files, urls, env, plan, result, arg, ret, consumed>>

-----------------------------------------------------------------------------
(* lib.rs: the launch planner *)

\* U+0060, which a TLA+ string literal cannot hold: "^" stands for it, and the
\* model uses "^" for nothing else
Backtick == "^"

\* the characters that make shell_escape quote its argument
ShellSpecial == CharsOf(" \t\n'\"\\$()[]{}?*~&|;<>") \cup {Backtick}

shell_escape(s) ==
    IF \E i \in 1..Len(s) : At(s, i) \in ShellSpecial
    THEN "'" \o Replace(s, "'", "'\"'\"'") \o "'"
    ELSE s

RECURSIVE join_escaped(_)
\* the %F and %U loops: every element escaped, joined by one space
join_escaped(list) ==
    IF list = <<>> THEN ""
    ELSE IF Len(list) = 1 THEN shell_escape(list[1])
    ELSE shell_escape(list[1]) \o " " \o join_escaped(Tail(list))

RECURSIVE expand_loop(_, _, _, _, _)
\* expand_field_codes: the loop, `done` is the local `result`
expand_loop(a, rest, done, fs, us) ==
    IF rest = "" THEN done
    ELSE IF At(rest, 1) # "%" THEN expand_loop(a, From(rest, 2), done \o At(rest, 1), fs, us)
    ELSE IF Len(rest) = 1 THEN done \o "%"
    ELSE LET next_ch == At(rest, 2)
             after == From(rest, 3)
             icon == get_string(a, "Icon")
             name == get_string(a, "Name")
         IN  CASE next_ch = "%" -> expand_loop(a, after, done \o "%", fs, us)
               [] next_ch = "f" ->
                    expand_loop(a, after,
                        IF fs # <<>> THEN done \o shell_escape(fs[1]) ELSE done, fs, us)
               [] next_ch = "F" -> expand_loop(a, after, done \o join_escaped(fs), fs, us)
               [] next_ch = "u" ->
                    expand_loop(a, after,
                        IF us # <<>> THEN done \o shell_escape(us[1]) ELSE done, fs, us)
               [] next_ch = "U" -> expand_loop(a, after, done \o join_escaped(us), fs, us)
               [] next_ch = "i" ->
                    expand_loop(a, after,
                        IF icon.some THEN done \o "--icon " \o shell_escape(icon.v)
                        ELSE done, fs, us)
               [] next_ch = "c" ->
                    expand_loop(a, after,
                        IF name.some THEN done \o shell_escape(name.v) ELSE done, fs, us)
               [] next_ch = "k" -> expand_loop(a, after, done \o shell_escape(a.path), fs, us)
               [] next_ch \in {"d", "D", "n", "N", "v", "m"} ->
                    expand_loop(a, after, done, fs, us)
               [] OTHER -> done \o "%" \o next_ch \o after

expand_field_codes(a, exec, fs, us) == expand_loop(a, exec, "", fs, us)

RECURSIVE skip_blanks(_)
\* parse_command_line: "Skip multiple spaces"
skip_blanks(rest) ==
    IF rest # "" /\ At(rest, 1) \in {" ", "\t"} THEN skip_blanks(From(rest, 2)) ELSE rest

push_part(parts, current) == IF current # "" THEN Append(parts, current) ELSE parts

RECURSIVE tokenize_loop(_, _, _, _, _)
\* parse_command_line: the loop over the characters
tokenize_loop(rest, parts, current, in_quotes, quote_char) ==
    IF rest = "" THEN [parts |-> push_part(parts, current), in_quotes |-> in_quotes]
    ELSE LET ch == At(rest, 1)
         IN  IF ch \in {"\"", "'"} /\ ~in_quotes
             THEN tokenize_loop(From(rest, 2), parts, current, TRUE, ch)
             ELSE IF ch = quote_char /\ in_quotes
             THEN tokenize_loop(From(rest, 2), parts, current, FALSE, quote_char)
             ELSE IF ch = "\\" /\ in_quotes
             THEN IF Len(rest) >= 2
                  THEN LET next_ch == At(rest, 2)
                       IN  tokenize_loop(From(rest, 3), parts,
                               IF next_ch \in {"\"", "'", "\\", "$", Backtick}
                               THEN current \o next_ch
                               ELSE current \o "\\" \o next_ch,
                               in_quotes, quote_char)
                  ELSE tokenize_loop("", parts, current \o "\\", in_quotes, quote_char)
             ELSE IF ch \in {" ", "\t"} /\ ~in_quotes
             THEN tokenize_loop(skip_blanks(From(rest, 2)), push_part(parts, current),
                                "", in_quotes, quote_char)
             ELSE tokenize_loop(From(rest, 2), parts, current \o ch, in_quotes, quote_char)

NoPlan == [program |-> "", args |-> <<>>]

\* parse_command_line that does not look at in_quotes when the text ends
parse_command_line_ignores_open_quote(command) ==
    LET r == tokenize_loop(command, <<>>, "", FALSE, "\"")
    IN  IF r.parts = <<>> THEN [ok |-> FALSE, plan |-> NoPlan]
        ELSE [ok |-> TRUE, plan |-> [program |-> r.parts[1], args |-> Tail(r.parts)]]

\* parse_command_line: Ok((program, args)) or Err(InvalidCommand)
parse_command_line(command) ==
    LET r == tokenize_loop(command, <<>>, "", FALSE, "\"")
    IN  IF r.in_quotes THEN [ok |-> FALSE, plan |-> NoPlan]
        ELSE IF r.parts = <<>> THEN [ok |-> FALSE, plan |-> NoPlan]
        ELSE [ok |-> TRUE, plan |-> [program |-> r.parts[1], args |-> Tail(r.parts)]]

\* ApplicationEntry::parse_exec_command
parse_exec_command(a, fs, us) ==
    parse_command_line(expand_field_codes(a, get_string(a, "Exec").v, fs, us))

\* which_command(..).is_some(): a PATH directory holds the executable
which_command(e, executable) ==
    /\ e.PATH.some
    /\ LET dirs == Split(e.PATH.v, ":")
       IN  \E i \in 1..Len(dirs) : (dirs[i] \o "/" \o executable) \in e.fs

is_executable_available(e, executable) ==
    IF StartsWith(executable, "/") THEN executable \in e.fs
    ELSE which_command(e, executable)

\* find_terminal: the emulators tried when TERMINAL names none
terminals == <<"x-terminal-emulator", "gnome-terminal", "konsole", "xfce4-terminal",
               "mate-terminal", "lxterminal", "rxvt-unicode", "rxvt", "xterm">>

\* find_terminal that returns the last emulator of the list that is available
find_terminal_last_listed(e) ==
    IF e.TERMINAL.some /\ is_executable_available(e, e.TERMINAL.v)
    THEN Some(e.TERMINAL.v)
    ELSE LET hits == {i \in 1..Len(terminals) : is_executable_available(e, terminals[i])}
         IN  IF hits = {} THEN None ELSE Some(terminals[MaxOf(hits)])

find_terminal(e) ==
    IF e.TERMINAL.some /\ is_executable_available(e, e.TERMINAL.v)
    THEN Some(e.TERMINAL.v)
    ELSE LET hits == {i \in 1..Len(terminals) : is_executable_available(e, terminals[i])}
         IN  IF hits = {} THEN None ELSE Some(terminals[MinOf(hits)])

\* ApplicationEntry::terminal
terminal(a) == LET t == get_bool(a, "Terminal") IN t.some /\ t.v

\* validate_executable without the trim: only an empty Exec is refused
validate_executable_no_trim(a, e) ==
    LET exec == get_string(a, "Exec")
        try_exec == get_string(a, "TryExec")
    IN  IF ~exec.some THEN "NotExecutable"
        ELSE IF exec.v = "" THEN "NotExecutable"
        ELSE IF try_exec.some /\ ~is_executable_available(e, try_exec.v)
        THEN "ValidationFailed"
        ELSE "Ok"

\* validate_executable with the TryExec check moved before the Exec checks
validate_executable_try_exec_first(a, e) ==
    LET exec == get_string(a, "Exec")
        try_exec == get_string(a, "TryExec")
    IN  IF try_exec.some /\ ~is_executable_available(e, try_exec.v)
        THEN "ValidationFailed"
        ELSE IF ~exec.some THEN "NotExecutable"
        ELSE IF Trim(exec.v) = "" THEN "NotExecutable"
        ELSE "Ok"

\* ApplicationEntry::validate_executable: "Ok" or the kind of ExecuteError
validate_executable(a, e) ==
    LET exec == get_string(a, "Exec")
        try_exec == get_string(a, "TryExec")
    IN  IF ~exec.some THEN "NotExecutable"
        ELSE IF Trim(exec.v) = "" THEN "NotExecutable"
        ELSE IF try_exec.some /\ ~is_executable_available(e, try_exec.v)
        THEN "ValidationFailed"
        ELSE "Ok"

NoEnv == [TERMINAL |-> None, PATH |-> None, fs |-> {}]

\* prepare_command returns
Finish(r, p) ==
    /\ pc' = "done"
    /\ result' = r
    /\ plan' = p

\* a caller calls prepare_command(fs, us) on the entry it holds, in environment e
Call(fs, us, e) ==
    /\ app.have
    /\ pc = "idle"
    /\ pc' = "validate"
    /\ files' = fs
    /\ urls' = us
    /\ env' = e
    /\ UNCHANGED <<line_num, current_group, groups, status, app, plan, result, lookup,
                   arg, ret, consumed>>

\* prepare_command: self.validate_executable()?
ValidateExecutable ==
    /\ pc = "validate"
    /\ LET v == validate_executable(Inner, env)
       IN  IF v = "Ok" THEN pc' = "expand" /\ UNCHANGED <<plan, result>>
           ELSE Finish(v, NoPlan)
    /\ UNCHANGED <<line_num, current_group, groups, status, app, files, urls, env, lookup,
                   arg, ret, consumed>>

\* prepare_command: self.parse_exec_command(files, urls)?
ParseExecCommand ==
    /\ pc = "expand"
    /\ LET r == parse_exec_command(Inner, files, urls)
       IN  IF r.ok THEN pc' = "terminal" /\ plan' = r.plan /\ UNCHANGED result
           ELSE Finish("InvalidCommand", NoPlan)
    /\ UNCHANGED <<line_num, current_group, groups, status, app, files, urls, env, lookup,
                   arg, ret, consumed>>

\* prepare_command: the terminal branch (wrap_with_terminal) and the Ok return
WrapWithTerminal ==
    /\ pc = "terminal"
    /\ IF terminal(Inner)
       THEN LET t == find_terminal(env)
            IN  IF t.some
                THEN Finish("Ok", [program |-> t.v,
                                   args |-> <<"-e", plan.program>> \o plan.args])
                ELSE Finish("TerminalNotFound", NoPlan)
       ELSE Finish("Ok", plan)
    /\ UNCHANGED <<line_num, current_group, groups, status, app, files, urls, env, lookup,
                   arg, ret, consumed>>

\* the caller has the result; the call's frame is gone
CallReturns ==
    /\ pc = "done"
    /\ pc' = "idle"
    /\ files' = <<>>
    /\ urls' = <<>>
    /\ env' = NoEnv
    /\ plan' = NoPlan
    /\ result' = "none"
    /\ UNCHANGED <<line_num, current_group, groups, status, app, lookup,
                   arg, ret, consumed>>

-----------------------------------------------------------------------------
(* lib.rs: ApplicationEntry::id *)

\* str::find(&str): the index of the first occurrence, 0 for None
FindStr(s, p) ==
    LET hits == {i \in 1..(Len(s) - Len(p) + 1) : SubSeq(s, i, i + Len(p) - 1) = p}
    IN  IF hits = {} THEN 0 ELSE MinOf(hits)

\* str::strip_suffix(..).is_some()
EndsWith(s, p) == Len(s) >= Len(p) /\ SubSeq(s, Len(s) - Len(p) + 1, Len(s)) = p

\* Path::components without the root: the texts between `/`, with the empty
\* ones and the `.` ones normalized away
Components(file_path) ==
    SelectSeq(Split(file_path, "/"), LAMBDA c : c # "" /\ c # ".")

\* Path::file_name: the last component, None when it is `..` or there is none
file_name(file_path) ==
    LET cs == Components(file_path)
    IN  IF cs = <<>> \/ cs[Len(cs)] = ".." THEN None ELSE Some(cs[Len(cs)])

\* Path::file_stem: the file name before its last `.`; the whole name when it
\* has no `.` or only begins with one
file_stem(file_path) ==
    LET name == file_name(file_path)
    IN  IF ~name.some THEN None
        ELSE LET dots == {i \in 1..Len(name.v) : At(name.v, i) = "."}
             IN  IF dots = {} \/ MaxOf(dots) = 1 THEN name
                 ELSE Some(SubSeq(name.v, 1, MaxOf(dots) - 1))

\* id that never looks for an applications directory
id_file_stem_only(file_path) == file_stem(file_path)

\* ApplicationEntry::id on an entry whose source path is file_path
id(file_path) ==
    LET apps_pos == FindStr(file_path, "/applications/")
        after_apps == From(file_path, apps_pos + Len("/applications/"))
    IN  IF apps_pos # 0 /\ EndsWith(after_apps, ".desktop")
        THEN Some(Replace(SubSeq(after_apps, 1, Len(after_apps) - Len(".desktop")), "/", "-"))
        ELSE file_stem(file_path)

-----------------------------------------------------------------------------
(* Functions of the crate called on their own, on the text `arg` *)

\* the call leaves everything but `ret` alone
OnlyRet ==
    UNCHANGED <<line_num, current_group, groups, status, app,
                pc, files, urls, env, plan, result, lookup, arg, consumed>>

\* parse_value(arg)
CallParseValue ==
    /\ ret' = [fn |-> "parse_value", out |-> parse_value(arg)]
    /\ OnlyRet

\* unescape_value(arg)
CallUnescapeValue ==
    /\ ret' = [fn |-> "unescape_value", out |-> unescape_value(arg)]
    /\ OnlyRet

\* id() of an entry whose source path is arg
CallId ==
    /\ ret' = [fn |-> "id", out |-> id(arg)]
    /\ OnlyRet

\* parse_command_line(arg)
CallParseCommandLine ==
    /\ ret' = [fn |-> "parse_command_line", out |-> parse_command_line(arg)]
    /\ OnlyRet

-----------------------------------------------------------------------------
(* The inputs *)

\* the lines a file of the launch specification is made of
LaunchLines ==
    {"[Desktop Entry]", "Type=Application", "Name=Test",
     "Exec=echo %f", "Exec=", "Exec=\\s", "Exec=echo %z", "Exec=echo 'a", "Exec=a;b",
     "TryExec=/opt/app", "Terminal=true", "Terminal=yes", "DBusActivatable=true"}

\* the characters of a one-character file argument
ArgAlphabet == {"a", " ", "'", "\"", "\\", "$", Backtick}

\* the characters of the longer file arguments
ArgCore == {"a", "'", "\\", "$"}

\* no file, two files, a backslash before a double quote, every one-character
\* file and every file of up to MaxArgLen characters of ArgCore
FileArgs ==
    {<<>>, <<"a b", "c">>, <<"\\\"">>}
    \cup {<<s>> : s \in StringsUpTo(ArgAlphabet, 1) \cup StringsUpTo(ArgCore, MaxArgLen)}

UrlArgs == {<<>>, <<"u:/x">>}

\* the files that may exist
FsPool == {"/opt/app", "/bin/konsole", "/bin/xterm"}

\* the environments of the launch specification: TERMINAL unset and any set of
\* existing files, or TERMINAL naming an emulator that exists or does not
Envs ==
    {[TERMINAL |-> None, PATH |-> Some("/sbin:/bin"), fs |-> f] : f \in SUBSET FsPool}
    \cup {[TERMINAL |-> Some("kitty"), PATH |-> Some("/sbin:/bin"), fs |-> f] :
              f \in {{"/bin/kitty", "/bin/xterm"}, {"/bin/xterm"},
                     {"/bin/konsole", "/bin/xterm"}, {}}}

-----------------------------------------------------------------------------
(* The specifications *)

Init ==
    /\ line_num = 0
    /\ current_group = None
    /\ groups = EmptyMap
    /\ status = "parsing"
    /\ app = NoApp
    /\ pc = "idle"
    /\ files = <<>>
    /\ urls = <<>>
    /\ env = NoEnv
    /\ plan = NoPlan
    /\ result = "none"
    /\ lookup = NoLookup
    /\ arg = ""
    /\ ret = NoRet
    /\ consumed = <<>>

\* a file is parsed, then its entry is asked for launch plans
Next ==
    \/ \E l \in LaunchLines : ParseLine(l, MaxLines)
    \/ ReadError
    \/ EndOfFile
    \/ FromPathFallback
    \/ \E fs \in FileArgs, us \in UrlArgs, e \in Envs : Call(fs, us, e)
    \/ ValidateExecutable
    \/ ParseExecCommand
    \/ WrapWithTerminal
    \/ CallReturns

Spec == Init /\ [][Next]_vars

\* the lines a file of the parser specification is made of
ParseLines ==
    {"[Desktop Entry]", "[Other]", "Type=Application", "Type=Link", "URL=x",
     "Name=Test", "Name[es]=Hola", "Exec=app", "Exec[es]=app",
     "DBusActivatable=true", "DBusActivatable=false", "DBusActivatable=yes",
     "Invalid Key=value", "# comment", "noise", "=x"}

\* a file is parsed, and a failed parse may be turned into the default entry
NextParse ==
    \/ \E l \in ParseLines : ParseLine(l, MaxLinesParse)
    \/ ReadError
    \/ EndOfFile
    \/ FromPathFallback

SpecParse == Init /\ [][NextParse]_vars

\* the lines a file of the locale specification is made of: the value of every
\* variant of Comment is the tag it is stored under
LocaleLines ==
    {"[Desktop Entry]", "Type=Directory", "Name=Dir", "Comment=base",
     "Comment[sr_RS@latin]=sr_RS@latin", "Comment[sr_RS]=sr_RS",
     "Comment[sr@latin]=sr@latin", "Comment[sr]=sr", "Comment[sr_ME]=sr_ME"}

\* the locales asked for
RequestLocales ==
    {None} \cup
    {Some(l) : l \in {"sr_RS@latin", "sr_RS", "sr@latin", "sr", "sr_ME", "de_DE",
                      "sr_RS.UTF-8", "sr_RS.UTF-8@latin", "sr_ME.UTF-8"}}

\* a file is parsed, then its entry is asked for localized values
NextLocale ==
    \/ \E l \in LocaleLines : ParseLine(l, MaxLinesLocale)
    \/ ReadError
    \/ EndOfFile
    \/ FromPathFallback
    \/ \E k \in {"Comment", "Name"}, l \in RequestLocales : GetLocalizedString(k, l)

SpecLocale == Init /\ [][NextLocale]_vars

\* the lines a recorded file is made of
FileLines ==
    {"[Desktop Entry]", "[Other]", "Type=Directory", "Name=Test", "Name=1",
     "Name[es]=Hola", "Name=a;b", "Name=true", "My_Key[es]=v",
     "noise", "# c=d", "=x", " "}

\* a file is parsed and what was read of it is recorded
NextFile ==
    \/ \E l \in FileLines : ReadLine(l, MaxLinesFile)
    \/ ReadError
    \/ EndOfFile
    \/ FromPathFallback

SpecFile == Init /\ [][NextFile]_vars

\* the lines of a file with unusual group headers and keys
NameLines ==
    {"[Desktop Entry]", "[A_b]", "[]", "[x", "Type=Directory", "Name=Test",
     "Name[es]=Hola", "Name[en_US.UTF-8]=x", "Name[en=v", "[en]=v", "noise"}

\* a file with unusual names is parsed and what was read of it is recorded
NextNames ==
    \/ \E l \in NameLines : ReadLine(l, MaxLinesNames)
    \/ ReadError
    \/ EndOfFile
    \/ FromPathFallback

SpecNames == Init /\ [][NextNames]_vars

\* the characters of a raw value
ValueAlphabet == {"a", "s", ";", "\\", " "}

\* the characters of a command line
CommandAlphabet == {"a", " ", "\t", "'", "\"", "\\"}

\* texts that are numbers, or nearly
NumberTexts ==
    {"1", "-1", "+1.5", "1.", ".5", "1e5", "1E-5", "-.5e+1", "1e", "e5", ".", "-",
     "1.5.2", "0x10", "1 2", "1;2", "inf", "-inf", "+Infinity", "INF", "infinit",
     "nan", "NaN", "-nan", "true", "TRUE", "false", "tru"}

\* freedesktop_core::base_directories(): the configured XDG data directories
base_directories == {"/usr/share", "/usr/local/share"}

\* where a file's directory begins, what its directory continues with, and
\* the names of files
PathPrefixes == {"", "/usr/share", "/usr/local/share", "/tmp/test_xdg_data"}

PathMiddles == {"/", "/applications/", "/applications/foo/", "/apps/",
                "/applications/applications/"}

PathNames == {"bar.desktop", "complex.name.desktop", "no_extension_test", "bar.txt",
              ".desktop", "bar.desktop.bak"}

\* the source paths of files
PathTexts == {pre \o mid \o name : pre \in PathPrefixes, mid \in PathMiddles, name \in PathNames}

\* the texts a function is called on
Texts ==
    {""} \cup NumberTexts
    \cup StringsUpTo(ValueAlphabet, MaxTextLen)
    \cup StringsUpTo(CommandAlphabet, MaxTextLen)

\* a text is given
InitText ==
    /\ line_num = 0
    /\ current_group = None
    /\ groups = EmptyMap
    /\ status = "parsing"
    /\ app = NoApp
    /\ pc = "idle"
    /\ files = <<>>
    /\ urls = <<>>
    /\ env = NoEnv
    /\ plan = NoPlan
    /\ result = "none"
    /\ lookup = NoLookup
    /\ arg \in Texts
    /\ ret = NoRet
    /\ consumed = <<>>

\* the functions are called on the text
NextText ==
    \/ CallParseValue
    \/ CallUnescapeValue
    \/ CallParseCommandLine

SpecText == InitText /\ [][NextText]_vars

\* a source path is given
InitId ==
    /\ line_num = 0
    /\ current_group = None
    /\ groups = EmptyMap
    /\ status = "parsing"
    /\ app = NoApp
    /\ pc = "idle"
    /\ files = <<>>
    /\ urls = <<>>
    /\ env = NoEnv
    /\ plan = NoPlan
    /\ result = "none"
    /\ lookup = NoLookup
    /\ arg \in PathTexts
    /\ ret = NoRet
    /\ consumed = <<>>

\* id() is called on an entry that has the source path
NextId == CallId

SpecId == InitId /\ [][NextId]_vars

-----------------------------------------------------------------------------
(* What the claims speak of, read off the state *)

\* the base fields of the `Desktop Entry` group of the document
BaseFields ==
    IF "Desktop Entry" \in DOMAIN groups THEN groups["Desktop Entry"].fields ELSE EmptyMap

\* the document has a base field `key` classified String
HasStringField(key) == key \in DOMAIN BaseFields /\ BaseFields[key].t = "String"

\* the Exec value the entry has, if it has one
ExecText == IF HasStringField("Exec") THEN BaseFields["Exec"].s ELSE ""

\* the entry has no Exec key, or an Exec value that is empty or whitespace-only
ExecMissingOrBlank ==
    \/ "Exec" \notin DOMAIN BaseFields
    \/ HasStringField("Exec") /\ \A i \in 1..Len(ExecText) : At(ExecText, i) \in WhiteSpace

\* the entry has a TryExec value that names nothing available in env
TryExecUnavailable ==
    /\ HasStringField("TryExec")
    /\ ~is_executable_available(env, BaseFields["TryExec"].s)

\* the entry's Terminal field is Boolean true
TerminalTrue ==
    /\ "Terminal" \in DOMAIN BaseFields
    /\ BaseFields["Terminal"].t = "Boolean"
    /\ BaseFields["Terminal"].b

\* the field codes the expander knows
KnownCodes == {"%", "f", "F", "u", "U", "i", "c", "k", "d", "D", "n", "N", "v", "m"}

RECURSIVE HasInvalidFieldCode(_)
\* the template holds a field code %X with X not a known code (%% is one code)
HasInvalidFieldCode(t) ==
    IF Len(t) < 2 THEN FALSE
    ELSE IF At(t, 1) # "%" THEN HasInvalidFieldCode(From(t, 2))
    ELSE IF At(t, 2) \in KnownCodes THEN HasInvalidFieldCode(From(t, 3))
    ELSE TRUE

-----------------------------------------------------------------------------
(* C1 *)

\* C1: for every non-empty file string s, prepare_command on an entry with
\* Exec=`echo %f`, no TryExec and Terminal not true, called with files = [s],
\* returns program `echo` and exactly one argument equal to s.
C1_EscapeRoundTrip ==
    ( /\ pc = "done"
      /\ ExecText = "echo %f"
      /\ "TryExec" \notin DOMAIN BaseFields
      /\ ~TerminalTrue
      /\ Len(files) = 1
      /\ files[1] # "" )
    => /\ result = "Ok"
       /\ plan = [program |-> "echo", args |-> <<files[1]>>]

-----------------------------------------------------------------------------
(* C2 *)

\* C2: if the Exec template holds an unknown field code %X, prepare_command,
\* once the Exec and TryExec checks have passed, returns Err(InvalidCommand)
\* and never an Ok plan, for every files and urls.
C2_InvalidFieldCodeRejected ==
    ( /\ pc = "done"
      /\ HasInvalidFieldCode(ExecText)
      /\ result \notin {"NotExecutable", "ValidationFailed"} )
    => result = "InvalidCommand"

-----------------------------------------------------------------------------
(* C8 *)

\* C8: prepare_command returns Err(NotExecutable) whenever the entry has no
\* Exec value or an Exec value that is empty or whitespace-only, whatever the
\* files, urls, TryExec and Terminal; a document with DBusActivatable=true and
\* no Exec key parses successfully and is such an entry.
C8_NotExecutable ==
    (pc = "done" /\ ExecMissingOrBlank) => result = "NotExecutable"

\* a successfully parsed DBusActivatable document without Exec, with a TryExec
\* that is not available, asked for a plan with a file: NotExecutable
C8_Witness ==
    /\ pc = "done"
    /\ status = "Ok"
    /\ "Exec" \notin DOMAIN BaseFields
    /\ "DBusActivatable" \in DOMAIN BaseFields
    /\ TryExecUnavailable
    /\ files # <<>>
    /\ result = "NotExecutable"

-----------------------------------------------------------------------------
(* C9 *)

\* the expanded Exec value does not tokenize
TokenizeFails == ~parse_exec_command(Inner, files, urls).ok

\* C9: prepare_command runs its steps in a fixed order and reports only the
\* first failure: NotExecutable (Exec check), then ValidationFailed (TryExec
\* check), then InvalidCommand (expand and tokenize), then TerminalNotFound
\* (terminal lookup).  A later step is reached only when the earlier ones
\* passed, and the result is the error of the first step that fails.
C9_FirstFailure ==
    /\ pc \in {"expand", "terminal"} => ~ExecMissingOrBlank /\ ~TryExecUnavailable
    /\ pc = "terminal" => ~TokenizeFails
    /\ pc = "done" =>
          result = IF ExecMissingOrBlank THEN "NotExecutable"
                   ELSE IF TryExecUnavailable THEN "ValidationFailed"
                   ELSE IF TokenizeFails THEN "InvalidCommand"
                   ELSE IF TerminalTrue /\ ~find_terminal(env).some THEN "TerminalNotFound"
                   ELSE "Ok"

\* an unterminated quote, an unavailable TryExec, Terminal=true and no
\* terminal emulator: the result is ValidationFailed
C9_Witness ==
    /\ pc = "done"
    /\ ExecText = "echo 'a"
    /\ TryExecUnavailable
    /\ TerminalTrue
    /\ ~find_terminal(env).some
    /\ result = "ValidationFailed"

-----------------------------------------------------------------------------
(* C3 *)

\* C3: whenever try_from_path returns Ok, the document has a group named
\* exactly `Desktop Entry` whose base fields contain both Type and Name; a
\* document that has Name only in localized variants does not parse.
C3_RequiredKeysPresent ==
    status = "Ok" =>
        /\ "Desktop Entry" \in DOMAIN groups
        /\ {"Type", "Name"} \subseteq DOMAIN groups["Desktop Entry"].fields

\* a successful parse of a document that has Name[es] beside the base Name
C3_Witness ==
    /\ status = "Ok"
    /\ app.have
    /\ "Name" \in DOMAIN groups["Desktop Entry"].localized_fields
    /\ "es" \in DOMAIN groups["Desktop Entry"].localized_fields["Name"]

-----------------------------------------------------------------------------
(* C4 *)

\* the document has a `Desktop Entry` group without a base Type or a base Name
LacksTypeOrName ==
    /\ "Desktop Entry" \in DOMAIN groups
    /\ ~({"Type", "Name"} \subseteq DOMAIN groups["Desktop Entry"].fields)

\* C4 as stated: whenever a readable document lacks a base Type or a base
\* Name in its `Desktop Entry` group, whatever else the file contains,
\* try_from_path returns Err(MissingRequiredKey), never Ok and never another
\* error kind.
C4_AlwaysMissingRequiredKey ==
    (status \notin {"parsing", "IoError"} /\ LacksTypeOrName)
        => status = "MissingRequiredKey"

\* C4 as amended: for such a document try_from_path never returns Ok; it
\* returns Err(MissingRequiredKey), or Err(InvalidFormat) when a line of the
\* file was rejected before the end of the file was reached.
C4_NeverOk ==
    (status \notin {"parsing", "IoError"} /\ LacksTypeOrName)
        => status \in {"MissingRequiredKey", "InvalidFormat"}

\* a document with a second group and Type, with Name only as Name[es],
\* rejected with MissingRequiredKey
C4_Witness ==
    /\ status = "MissingRequiredKey"
    /\ LacksTypeOrName
    /\ "Other" \in DOMAIN groups
    /\ "Type" \in DOMAIN BaseFields
    /\ "Name" \in DOMAIN groups["Desktop Entry"].localized_fields

-----------------------------------------------------------------------------
(* C10 *)

\* the `Desktop Entry` group has Type=Application, a base Name, no base Exec
ApplicationWithoutExec ==
    /\ HasStringField("Type")
    /\ BaseFields["Type"].s = "Application"
    /\ "Name" \in DOMAIN BaseFields
    /\ "Exec" \notin DOMAIN BaseFields

\* DBusActivatable is present and classified Boolean true
DBusActivatableTrue ==
    /\ "DBusActivatable" \in DOMAIN BaseFields
    /\ BaseFields["DBusActivatable"] = VBoolean(TRUE)

\* C10: for a document whose `Desktop Entry` group has Type=Application, a
\* base Name and no base Exec key, and whose lines were all accepted, parsing
\* succeeds if and only if DBusActivatable is present and classified Boolean
\* true; otherwise it fails with MissingRequiredKey.
C10_ExecOrDBus ==
    (status \notin {"parsing", "IoError", "InvalidFormat"} /\ ApplicationWithoutExec)
        => /\ status \in {"Ok", "MissingRequiredKey"}
           /\ status = "Ok" <=> DBusActivatableTrue

\* DBusActivatable=yes is present but is a String: MissingRequiredKey
C10_Witness ==
    /\ status = "MissingRequiredKey"
    /\ ApplicationWithoutExec
    /\ HasStringField("DBusActivatable")
    /\ "Exec" \in DOMAIN groups["Desktop Entry"].localized_fields

-----------------------------------------------------------------------------
(* Locale tags as the format defines them: lang[_COUNTRY][.ENCODING][@MODIFIER] *)

\* the tag without its @MODIFIER
BeforeModifier(tag) ==
    IF Contains(tag, "@") THEN SubSeq(tag, 1, Find(tag, "@") - 1) ELSE tag

\* "@MODIFIER" when the tag has one, "" otherwise
TagModifier(tag) == IF Contains(tag, "@") THEN From(tag, Find(tag, "@")) ELSE ""

\* lang[_COUNTRY]: the tag without .ENCODING and without @MODIFIER
TagLangCountry(tag) ==
    LET b == BeforeModifier(tag)
    IN  IF Contains(b, ".") THEN SubSeq(b, 1, Find(b, ".") - 1) ELSE b

TagLang(tag) ==
    LET lc == TagLangCountry(tag)
    IN  IF Contains(lc, "_") THEN SubSeq(lc, 1, Find(lc, "_") - 1) ELSE lc

TagHasCountry(tag) == Contains(TagLangCountry(tag), "_")

TagHasEncoding(tag) == Contains(BeforeModifier(tag), ".")

\* the tag with only its .ENCODING part removed
WithoutEncoding(tag) == TagLangCountry(tag) \o TagModifier(tag)

\* the stored variants of `key` in the `Desktop Entry` group
Variants(key) ==
    IF /\ "Desktop Entry" \in DOMAIN groups
       /\ key \in DOMAIN groups["Desktop Entry"].localized_fields
    THEN groups["Desktop Entry"].localized_fields[key] ELSE EmptyMap

\* the base field of `key`
BaseField(key) == MapGet(BaseFields, key)

\* the tags to try for a request, in the order of the format
SearchOrder(tag) ==
    (IF TagHasCountry(tag) /\ TagModifier(tag) # ""
     THEN <<TagLangCountry(tag) \o TagModifier(tag)>> ELSE <<>>)
    \o (IF TagHasCountry(tag) THEN <<TagLangCountry(tag)>> ELSE <<>>)
    \o (IF TagModifier(tag) # "" THEN <<TagLang(tag) \o TagModifier(tag)>> ELSE <<>>)
    \o <<TagLang(tag)>>

\* the first stored variant in search order, the base field when there is none
FirstInOrder(key, tag) ==
    LET order == SearchOrder(tag)
    IN  FirstSome([i \in 1..(Len(order) + 1) |->
                      IF i <= Len(order) THEN MapGet(Variants(key), order[i])
                      ELSE BaseField(key)])

-----------------------------------------------------------------------------
(* C5 *)

\* C5: get_localized_field(key, Some(L)) returns the first defined value in
\* the order lang_COUNTRY@MODIFIER, lang_COUNTRY, lang@MODIFIER, lang, base
\* field, skipping the steps that need a country or modifier L does not have,
\* for every combination of stored variants of the key.
C5_SearchOrder ==
    (lookup.called /\ lookup.locale.some)
        => lookup.field = FirstInOrder(lookup.key, lookup.locale.v)

-----------------------------------------------------------------------------
(* C6 *)

\* C6: a request lang_COUNTRY.ENCODING or lang_COUNTRY.ENCODING@MODIFIER
\* resolves to the same value as the request with only .ENCODING removed,
\* for every set of stored variants of the key.
C6_EncodingIgnored ==
    ( /\ lookup.called
      /\ "Desktop Entry" \in DOMAIN groups
      /\ lookup.locale.some
      /\ TagHasEncoding(lookup.locale.v) )
        => lookup.field =
               get_localized_field(groups["Desktop Entry"], lookup.key,
                                   Some(WithoutEncoding(lookup.locale.v)))

-----------------------------------------------------------------------------
(* C7 *)

\* C7: for a request lang_C1, when no variant is stored under lang_C1 (the
\* stored ones are under lang_C2, C2 # C1, or other tags), the result is the
\* value stored under lang if there is one, otherwise the base field.
C7_NoOtherCountry ==
    ( /\ lookup.called
      /\ lookup.locale.some
      /\ TagHasCountry(lookup.locale.v)
      /\ ~TagHasEncoding(lookup.locale.v)
      /\ TagModifier(lookup.locale.v) = ""
      /\ lookup.locale.v \notin DOMAIN Variants(lookup.key) )
    => lookup.field =
           IF TagLang(lookup.locale.v) \in DOMAIN Variants(lookup.key)
           THEN Some(Variants(lookup.key)[TagLang(lookup.locale.v)])
           ELSE BaseField(lookup.key)

\* sr_ME asked for, variants stored under sr_RS and sr: the value under sr
C7_Witness ==
    /\ lookup.called
    /\ lookup.key = "Comment"
    /\ lookup.locale = Some("sr_ME")
    /\ {"sr_RS", "sr"} \subseteq DOMAIN Variants("Comment")
    /\ "sr_ME" \notin DOMAIN Variants("Comment")
    /\ lookup.string = Some("sr")

-----------------------------------------------------------------------------
(* The recorded file, read line by line as the format defines it *)

\* the line is blank
IsBlank(l) == Trim(l) = ""

\* the first non-whitespace character of the line is `#`
IsComment(l) == StartsWith(Trim(l), "#")

\* the line is a group header
IsHeaderLine(l) == ~IsBlank(l) /\ ~IsComment(l) /\ is_group_header(Trim(l))

\* the name a group header gives
HeaderName(l) == SubSeq(Trim(l), 2, Len(Trim(l)) - 1)

\* the line is none of the above and holds a `=`
HasEquals(l) == ~IsBlank(l) /\ ~IsComment(l) /\ ~IsHeaderLine(l) /\ Contains(Trim(l), "=")

\* the key of a line that holds a `=`: the trimmed text before the first `=`
KeyOf(l) == Trim(SubSeq(Trim(l), 1, Find(Trim(l), "=") - 1))

\* the raw value of a line that holds a `=`: the trimmed text after the first `=`
ValueOf(l) == Trim(From(Trim(l), Find(Trim(l), "=") + 1))

\* the line is a key=value pair with a key that is not empty
IsPair(l) == HasEquals(l) /\ KeyOf(l) # ""

\* the part of a key before any `[`
BaseKeyOf(l) ==
    IF Contains(KeyOf(l), "[") THEN SubSeq(KeyOf(l), 1, Find(KeyOf(l), "[") - 1)
    ELSE KeyOf(l)

\* a key=value line whose key part before any `[` holds a character outside
\* A-Z a-z 0-9 and `-`
HasBadKey(l) ==
    /\ IsPair(l)
    /\ \E i \in 1..Len(BaseKeyOf(l)) : At(BaseKeyOf(l), i) \notin (AsciiAlnum \cup {"-"})

\* the lines of a recorded file that are group headers
HeaderLines == {l \in FileLines \cup NameLines : IsHeaderLine(l)}

\* the lines of a recorded file that are key=value pairs with a key
PairLines == {l \in FileLines \cup NameLines : IsPair(l)}

\* the lines of a recorded file that are key=value pairs with a bad key
BadKeyLines == {l \in FileLines \cup NameLines : HasBadKey(l)}

\* the index of the first group header of the lines, Len + 1 when there is none
FirstHeader(seq) ==
    LET H == {i \in 1..Len(seq) : seq[i] \in HeaderLines}
    IN  IF H = {} THEN Len(seq) + 1 ELSE MinOf(H)

\* the group that line i of the lines belongs to: the last header before it
GroupAt(seq, i) ==
    LET H == {j \in 1..(i - 1) : seq[j] \in HeaderLines}
    IN  IF H = {} THEN None ELSE Some(HeaderName(seq[MaxOf(H)]))

\* the lines of group g that give the key `key` (base key and locale tag)
Occurrences(seq, g, key) ==
    {i \in 1..Len(seq) :
        seq[i] \in PairLines /\ GroupAt(seq, i) = Some(g) /\ KeyOf(seq[i]) = key}

\* what the groups gs hold in group g for the key `key` (base key and locale tag)
StoredIn(gs, g, key) ==
    LET lk == LocalizedKey_parse(key)
    IN  IF lk.locale.some
        THEN IF lk.key \in DOMAIN gs[g].localized_fields
             THEN MapGet(gs[g].localized_fields[lk.key], lk.locale.v) ELSE NoneV
        ELSE MapGet(gs[g].fields, lk.key)

-----------------------------------------------------------------------------
(* C11 *)

\* C11: a document with a key=value line whose key part before any `[` holds
\* a character outside A-Z a-z 0-9 and `-` fails with InvalidFormat, wherever
\* the line is (before or after the first group header, in any group) and
\* whatever else the file holds.
C11_BadKeyInvalidFormat ==
    (\E i \in 1..Len(consumed) : consumed[i] \in BadKeyLines) => status = "InvalidFormat"

\* a key with `_` and a locale tag, in a second group after accepted lines
C11_Witness ==
    /\ consumed = <<"[Desktop Entry]", "Name=Test", "[Other]", "My_Key[es]=v">>
    /\ status = "InvalidFormat"

-----------------------------------------------------------------------------
(* C12 *)

\* a line before the first group header that is not blank and not a comment
OtherLineBeforeHeader ==
    \E i \in 1..(FirstHeader(consumed) - 1) :
        ~IsBlank(consumed[i]) /\ ~IsComment(consumed[i])

\* a key=value pair (with a key) before the first group header
PairBeforeHeader ==
    \E i \in 1..(FirstHeader(consumed) - 1) : consumed[i] \in PairLines

\* C12 as stated: while no group header has been seen, every line that is not
\* blank, not a comment and not a group header makes the parse fail with
\* InvalidFormat, a line without `=` included; the parse of a file with such
\* a line never ends otherwise.
C12_AnyLineBeforeHeader ==
    (OtherLineBeforeHeader /\ status \notin {"parsing", "IoError"})
        => status = "InvalidFormat"

\* C12 as amended: while no group header has been seen, a key=value line
\* with a key makes the parse fail with InvalidFormat; a line without `=` and
\* a line with an empty key are skipped, so that InvalidFormat is returned
\* only for a key=value line before the first header or a key with an
\* invalid name.
C12_PairBeforeHeader ==
    /\ PairBeforeHeader => status = "InvalidFormat"
    /\ status = "InvalidFormat" =>
          \/ PairBeforeHeader
          \/ \E i \in 1..Len(consumed) : consumed[i] \in BadKeyLines

\* a line without `=` before the header of an otherwise valid document: Ok
C12_Witness ==
    /\ consumed = <<"noise", "[Desktop Entry]", "Type=Directory", "Name=Test">>
    /\ status = "Ok"

-----------------------------------------------------------------------------
(* C13 *)

\* C13: when the same key (same base key without locale, or same base key
\* with the same locale tag) occurs more than once in a group, the value
\* stored is the classification of the last occurrence in file order, also
\* when the occurrences classify to different variants; other keys and other
\* locale tags are not affected (each holds its own last occurrence).
C13_LastWriteWins ==
    status \in {"parsing", "Ok"} =>
        \A i \in 1..Len(consumed) :
            (consumed[i] \in PairLines /\ GroupAt(consumed, i).some) =>
                LET g == GroupAt(consumed, i).v
                    key == KeyOf(consumed[i])
                    last == MaxOf(Occurrences(consumed, g, key))
                IN  /\ g \in DOMAIN groups
                    /\ StoredIn(groups, g, key) = Some(parse_value(ValueOf(consumed[last])))

\* Name given as a String, then Name[es], then Name again as a Numeric
C13_Witness ==
    /\ consumed = <<"[Desktop Entry]", "Name=Test", "Name[es]=Hola", "Name=1">>
    /\ status = "parsing"
    /\ groups["Desktop Entry"].fields["Name"] = VNumeric("1")
    /\ groups["Desktop Entry"].localized_fields["Name"]["es"] = VString("Hola")

-----------------------------------------------------------------------------
(* C14 *)

\* the line that the step has read
LineRead == consumed'[Len(consumed')]

\* C14: when a group header names a group already seen, the base and
\* localized fields stored in that group are kept, the key-value lines that
\* follow are added to that same group, and no other group is changed.
C14_ReentryFrame ==
    [][ (Len(consumed') = Len(consumed) + 1 /\ status' = "parsing") =>
          /\ (LineRead \in HeaderLines /\ HeaderName(LineRead) \in DOMAIN groups) =>
                /\ groups' = groups
                /\ current_group' = Some(HeaderName(LineRead))
          /\ (LineRead \in PairLines /\ current_group.some) =>
                /\ DOMAIN groups' = DOMAIN groups
                /\ \A h \in DOMAIN groups \ {current_group.v} : groups'[h] = groups[h]
                /\ StoredIn(groups', current_group.v, KeyOf(LineRead))
                       = Some(parse_value(ValueOf(LineRead)))
      ]_vars

\* `Desktop Entry` is entered, given a key, entered again and given another
\* key: it holds both keys
C14_Witness ==
    /\ Len(consumed) = 4
    /\ consumed[1] = "[Desktop Entry]"
    /\ consumed[2] = "Name=Test"
    /\ consumed[3] = "[Desktop Entry]"
    /\ consumed[4] = "Type=Directory"
    /\ status = "parsing"
    /\ DOMAIN groups["Desktop Entry"].fields = {"Name", "Type"}

-----------------------------------------------------------------------------
(* Escapes of a raw value, by position *)

\* the number of backslashes that stand immediately before position i
BackslashesBefore(s, i) ==
    MaxOf({k \in 0..(i - 1) : \A j \in (i - k)..(i - 1) : At(s, j) = "\\"})

\* the positions of the `;` that are not preceded by an odd number of backslashes
UnescapedSemicolons(s) ==
    {i \in 1..Len(s) : At(s, i) = ";" /\ BackslashesBefore(s, i) % 2 = 0}

-----------------------------------------------------------------------------
(* C15 *)

\* C15: a value is classified StringList only if its raw text holds a `;`
\* that is not preceded by an odd number of backslashes; the value `a\;b`,
\* whose only semicolon is escaped, is classified String with the text `a;b`.
C15_StringListOnlyUnescaped ==
    ret.fn = "parse_value" =>
        /\ ret.out.t = "StringList" => UnescapedSemicolons(arg) # {}
        /\ arg = "a\\;b" => ret.out = VString("a;b")

-----------------------------------------------------------------------------
(* C16 *)

\* C16: a value is classified Numeric exactly when its whole unescaped text
\* is a finite decimal number (optional sign, digits, optional fraction,
\* optional exponent); `inf`, `infinity` and `nan`, in any letter case and
\* with or without a sign, are not Numeric.
C16_NumericIffDecimal ==
    ret.fn = "parse_value" =>
        (ret.out.t = "Numeric" <=> IsNumber(StripSign(unescape_value(arg))))

-----------------------------------------------------------------------------
(* C17 *)

\* where a segment of a list begins: after the start or an unescaped `;`
SegmentStarts(s) == {0} \cup UnescapedSemicolons(s)

\* the segment that begins after position b: up to the next unescaped `;`
SegmentFrom(s, b) ==
    SubSeq(s, b + 1, MinOf({x \in UnescapedSemicolons(s) \cup {Len(s) + 1} : x > b}) - 1)

\* the segments that are not empty after trimming
KeptSegments(s) == {b \in SegmentStarts(s) : Trim(SegmentFrom(s, b)) # ""}

\* the elements of the list: the kept segments in file order, each trimmed
\* and unescaped
ExpectedElements(s) ==
    [k \in 1..Cardinality(KeptSegments(s)) |->
        LET b == CHOOSE x \in KeptSegments(s) :
                     Cardinality({y \in KeptSegments(s) : y <= x}) = k
        IN  unescape_value(Trim(SegmentFrom(s, b)))]

\* C17: the elements of a StringList value are, in file order, the segments
\* between unescaped `;`, each trimmed and unescaped, without the segments
\* that are empty after trimming; duplicates are kept and no element is the
\* empty string.
C17_ListElements ==
    (ret.fn = "parse_value" /\ ret.out.t = "StringList") =>
        /\ ret.out.l = ExpectedElements(arg)
        /\ \A i \in 1..Len(ret.out.l) : ret.out.l[i] # ""

\* a leading `;`, then the same element twice
C17_Witness ==
    /\ arg = ";a;a"
    /\ ret.fn = "parse_value"
    /\ ret.out = VStringList(<<"a", "a">>)

-----------------------------------------------------------------------------
(* C18 *)

\* position i begins an escape: a backslash that no escape before it consumed
EscapeStart(s, i) == At(s, i) = "\\" /\ BackslashesBefore(s, i) % 2 = 0

\* what the escape `\c` stands for
EscapeOf(c) ==
    CASE c = "s" -> " "
      [] c = "n" -> "\n"
      [] c = "t" -> "\t"
      [] c = "r" -> "\r"
      [] c = "\\" -> "\\"
      [] c = ";" -> ";"
      [] OTHER -> "\\" \o c

\* what position i gives to the result
PieceAt(s, i) ==
    IF EscapeStart(s, i) THEN (IF i = Len(s) THEN "\\" ELSE EscapeOf(At(s, i + 1)))
    ELSE IF i > 1 /\ EscapeStart(s, i - 1) THEN ""
    ELSE At(s, i)

RECURSIVE PiecesFrom(_, _)
\* the pieces of the positions i.. in order
PiecesFrom(s, i) == IF i > Len(s) THEN "" ELSE PieceAt(s, i) \o PiecesFrom(s, i + 1)

\* C18: unescape_value maps `\s`, `\n`, `\t`, `\r`, `\\` and `\;` to space,
\* newline, tab, carriage return, backslash and semicolon, copies every other
\* `\X` as its two characters, copies a lone trailing backslash and copies
\* every other character; a character consumed as the second character of an
\* escape never begins another escape.
C18_Unescape ==
    ret.fn = "unescape_value" => ret.out = PiecesFrom(arg, 1)

\* `\\s`: the second backslash is consumed and does not make `\s` a space
C18_Witness ==
    /\ arg = "\\\\s"
    /\ ret.fn = "unescape_value"
    /\ ret.out = "\\s"

-----------------------------------------------------------------------------
(* C19 *)

RECURSIVE QuoteAfter(_, _)
\* where the first i characters of a command line leave the reader: q is the
\* quote that is open ("" when none is), esc tells that the next character is
\* consumed by a backslash inside the quote
QuoteAfter(s, i) ==
    IF i = 0 THEN [q |-> "", esc |-> FALSE]
    ELSE LET p == QuoteAfter(s, i - 1)
             c == At(s, i)
         IN  IF p.esc THEN [q |-> p.q, esc |-> FALSE]
             ELSE IF p.q = ""
             THEN (IF c \in {"\"", "'"} THEN [q |-> c, esc |-> FALSE] ELSE p)
             ELSE IF c = p.q THEN [q |-> "", esc |-> FALSE]
             ELSE IF c = "\\" THEN [q |-> p.q, esc |-> TRUE]
             ELSE p

\* position i is a space or a tab outside every quote
IsSeparator(s, i) ==
    /\ At(s, i) \in {" ", "\t"}
    /\ QuoteAfter(s, i - 1) = [q |-> "", esc |-> FALSE]

\* what the character at position i adds to its token
TokenPiece(s, i) ==
    LET p == QuoteAfter(s, i - 1)
        c == At(s, i)
    IN  IF p.esc
        THEN (IF c \in {"\"", "'", "\\", "$", Backtick} THEN c ELSE "\\" \o c)
        ELSE IF p.q = "" THEN (IF c \in {"\"", "'"} THEN "" ELSE c)
        ELSE IF c = p.q THEN ""
        ELSE IF c = "\\" THEN (IF i = Len(s) THEN "\\" ELSE "")
        ELSE c

\* where a token may begin: after the start or a separator
TokenStarts(s) == {0} \cup {i \in 1..Len(s) : IsSeparator(s, i)}

RECURSIVE TokenPieces(_, _, _)
\* the pieces of the positions i..j in order
TokenPieces(s, i, j) == IF i > j THEN "" ELSE TokenPiece(s, i) \o TokenPieces(s, i + 1, j)

\* the text between position b and the separator that follows it
TokenFrom(s, b) ==
    TokenPieces(s, b + 1,
        MinOf({x \in TokenStarts(s) \cup {Len(s) + 1} : x > b}) - 1)

\* the beginnings whose text is not empty
KeptTokens(s) == {b \in TokenStarts(s) : TokenFrom(s, b) # ""}

\* the tokens of a command line, in order
ExpectedTokens(s) ==
    [k \in 1..Cardinality(KeptTokens(s)) |->
        LET b == CHOOSE x \in KeptTokens(s) :
                     Cardinality({y \in KeptTokens(s) : y <= x}) = k
        IN  TokenFrom(s, b)]

\* C19: parse_command_line returns Err(InvalidCommand) exactly when the text
\* ends inside an open quote or yields no token; otherwise it returns Ok with
\* the first token as the program and the other tokens, in order, as the
\* arguments, and a run of spaces and tabs yields no empty token.
C19_ParseCommandLine ==
    ret.fn = "parse_command_line" =>
        /\ ~ret.out.ok <=> (\/ QuoteAfter(arg, Len(arg)).q # ""
                            \/ ExpectedTokens(arg) = <<>>)
        /\ ret.out.ok =>
            /\ ret.out.plan.program = ExpectedTokens(arg)[1]
            /\ ret.out.plan.args = Tail(ExpectedTokens(arg))
            /\ ret.out.plan.program # ""
            /\ \A i \in 1..Len(ret.out.plan.args) : ret.out.plan.args[i] # ""

\* a tab and a space between two tokens: two tokens and no empty one
C19_Witness ==
    /\ arg = "a\t a"
    /\ ret.fn = "parse_command_line"
    /\ ret.out = [ok |-> TRUE, plan |-> [program |-> "a", args |-> <<"a">>]]

\* a text that ends inside an open quote
C19_WitnessOpenQuote ==
    /\ arg = "a 'a"
    /\ ret.fn = "parse_command_line"
    /\ ~ret.out.ok

-----------------------------------------------------------------------------
(* C20 *)

\* the program and arguments the Exec value of the entry tokenizes to
Tokenized == parse_exec_command(Inner, files, urls)

\* the steps of prepare_command before the terminal step succeed
EarlierStepsOk ==
    /\ validate_executable(Inner, env) = "Ok"
    /\ Tokenized.ok

\* the emulators of the fixed list that are available in env
AvailableListed == {i \in 1..Len(terminals) : is_executable_available(env, terminals[i])}

\* the emulator the launch uses: the one TERMINAL names when it is available,
\* otherwise the first available one of the list
ChosenTerminal ==
    IF env.TERMINAL.some /\ is_executable_available(env, env.TERMINAL.v)
    THEN Some(env.TERMINAL.v)
    ELSE IF AvailableListed = {} THEN None
    ELSE Some(terminals[CHOOSE i \in AvailableListed : \A j \in AvailableListed : i <= j])

\* C20: when Terminal is Boolean true and the earlier steps succeed, the plan
\* is (t, ["-e", program, args...]) with t the emulator TERMINAL names if it is
\* available and else the first available emulator of the fixed list, and the
\* result is TerminalNotFound when none is available; when Terminal is false,
\* absent or not a Boolean the tokenized plan is returned unchanged, whatever
\* emulators are available.
C20_TerminalWrap ==
    (pc = "done" /\ EarlierStepsOk) =>
        IF TerminalTrue
        THEN IF ChosenTerminal.some
             THEN /\ result = "Ok"
                  /\ plan = [program |-> ChosenTerminal.v,
                             args |-> <<"-e", Tokenized.plan.program>> \o Tokenized.plan.args]
             ELSE result = "TerminalNotFound"
        ELSE /\ result = "Ok"
             /\ plan = Tokenized.plan

\* TERMINAL names an emulator that is not installed and two emulators of the
\* list are: the earlier one of the list wraps the command
C20_Witness ==
    /\ pc = "done"
    /\ TerminalTrue
    /\ env.TERMINAL = Some("kitty")
    /\ env.fs = {"/bin/konsole", "/bin/xterm"}
    /\ result = "Ok"
    /\ plan = [program |-> "konsole", args |-> <<"-e", "echo">>]

\* Terminal=yes is not a Boolean: the plan is not wrapped although no emulator
\* is available
C20_WitnessNotBoolean ==
    /\ pc = "done"
    /\ "Terminal" \in DOMAIN BaseFields
    /\ BaseFields["Terminal"].t = "String"
    /\ env.fs = {}
    /\ result = "Ok"
    /\ plan = [program |-> "echo", args |-> <<>>]

-----------------------------------------------------------------------------
(* C21 *)

\* the path holds `/applications/` and ends in `.desktop`
UnderApplications(path) ==
    FindStr(path, "/applications/") # 0 /\ EndsWith(path, ".desktop")

\* the part of the path after the first `/applications/`
AfterApplications(path) == From(path, FindStr(path, "/applications/") + 14)

\* the base name of a file path: what follows its last `/`
BaseName(path) ==
    LET slashes == {i \in 1..Len(path) : At(path, i) = "/"}
    IN  IF slashes = {} THEN path ELSE From(path, MaxOf(slashes) + 1)

\* a name without its last extension; a name that only begins with `.` has
\* no extension
WithoutExtension(name) ==
    LET dots == {i \in 2..Len(name) : At(name, i) = "."}
    IN  IF dots = {} THEN name ELSE SubSeq(name, 1, MaxOf(dots) - 1)

C21_WitnessFallback ==
    /\ arg = "/tmp/test_xdg_data/complex.name.desktop"
    /\ ret.fn = "id"
    /\ ret.out = Some("complex.name")

-----------------------------------------------------------------------------
(* C22 *)

\* the file is in a subdirectory of a directory named `applications`
InApplicationsSubdir(path) ==
    UnderApplications(path) /\ Contains(AfterApplications(path), "/")

\* the applications directory of the path is the one of a configured XDG
\* data directory
UnderConfiguredDir(path) ==
    \E d \in base_directories : StartsWith(path, d \o "/applications/")

\* C22: for a file in a subdirectory of a directory named `applications` that
\* is not one of the configured XDG data directories, id() is the base name of
\* the file without its extension, with no subdirectory prefix.
C22_IdOutsideDataDirs ==
    (ret.fn = "id" /\ InApplicationsSubdir(arg) /\ ~UnderConfiguredDir(arg)) =>
        ret.out = Some(WithoutExtension(BaseName(arg)))

-----------------------------------------------------------------------------
(* C23 *)

\* the kinds of ParseError
ParseErrors == {"IoError", "InvalidFormat", "MissingRequiredKey"}

\* the keys the accessors are asked for
AccessorKeys == {"Name", "Type", "Exec", "Icon", "Terminal", "My_Key"}

C23_WitnessIoError ==
    /\ consumed = <<"[Desktop Entry]", "Name=Test">>
    /\ status = "IoError"
    /\ app.have
    /\ groups = EmptyMap

\* the file ended without the required keys
C23_WitnessMissingKey ==
    /\ consumed = <<"[Desktop Entry]", "Name=Test">>
    /\ status = "MissingRequiredKey"
    /\ app.have
    /\ groups = EmptyMap

-----------------------------------------------------------------------------
(* C24 *)

\* C24: for every entry for which try_from_path returns Ok, entry_type() and
\* name() both return Some, whatever text the Type and Name values have.
C24_OkHasTypeAndName ==
    (status = "Ok" /\ app.have) =>
        /\ get_string(Inner, "Type").some
        /\ get_string(Inner, "Name").some

-----------------------------------------------------------------------------
(* C25 *)

\* the lines of a recorded file that are not blank, not a comment and not a
\* group header and hold no `=`
NoEqualsLines ==
    {l \in FileLines \cup NameLines :
        ~IsBlank(l) /\ ~IsComment(l) /\ ~IsHeaderLine(l) /\ ~Contains(Trim(l), "=")}

\* C25: inside a group, a line that is not blank, not a comment and not a
\* group header and holds no `=` is skipped: it raises no error and leaves
\* the current group and the fields of every group unchanged, so that the
\* parse goes on as if the line were not in the file.
C25_NoEqualsSkipped ==
    [][ (Len(consumed') = Len(consumed) + 1 /\ LineRead \in NoEqualsLines
                                            /\ current_group.some) =>
          /\ status' = status
          /\ current_group' = current_group
          /\ groups' = groups
          /\ app' = app
      ]_vars

\* a line without `=` between the two required keys of a document that is Ok
C25_Witness ==
    /\ consumed = <<"[Desktop Entry]", "Type=Directory", "noise", "Name=Test">>
    /\ status = "Ok"
    /\ DOMAIN groups["Desktop Entry"].fields = {"Type", "Name"}

\* an opening bracket without its closing one, inside a group
C25_WitnessBracket ==
    /\ consumed = <<"[Desktop Entry]", "Name=Test", "[x">>
    /\ status = "parsing"
    /\ current_group = Some("Desktop Entry")
    /\ DOMAIN groups = {"Desktop Entry"}

-----------------------------------------------------------------------------
(* C26 *)

\* a text that is not empty and holds only characters of the set
MadeOf(text, chars) ==
    text # "" /\ \A i \in 1..Len(text) : At(text, i) \in chars

\* C26: after any sequence of parsed lines, every group name in the group map
\* of the document is non-empty and consists only of the characters A-Z, a-z,
\* 0-9, `-` and space.
C26_GroupNamesWellFormed ==
    \A g \in DOMAIN groups : MadeOf(g, AsciiAlnum \cup {"-", " "})

-----------------------------------------------------------------------------
(* C29 *)

\* the base keys a group stores, in `fields` and in `localized_fields`
StoredBaseKeys(group) == DOMAIN group.fields \cup DOMAIN group.localized_fields

\* C29: after any sequence of parsed lines, every base key stored in the
\* `fields` or the `localized_fields` of a group is non-empty and consists only
\* of ASCII letters, digits and `-`, also for a key with an unclosed bracket
\* such as `Name[en` and for a key with an empty name such as `[en]`.
C29_StoredKeysWellFormed ==
    \A g \in DOMAIN groups :
        \A k \in StoredBaseKeys(groups[g]) : MadeOf(k, AsciiAlnum \cup {"-"})

-----------------------------------------------------------------------------
(* C27 *)

\* the locale tags a group stores
StoredTags(group) ==
    UNION {DOMAIN group.localized_fields[k] : k \in DOMAIN group.localized_fields}

\* C27: no locale tag stored in the localized fields of a group holds a
\* `.ENCODING` part: a key written `Name[en_US.UTF-8]` is stored under the tag
\* `en_US`, so that a request for `en_US` finds it.
C27_NoEncodingStored ==
    /\ \A g \in DOMAIN groups : \A tag \in StoredTags(groups[g]) : ~Contains(tag, ".")
    /\ (status = "parsing" /\ Len(consumed) = 2 /\ consumed[1] = "[Desktop Entry]"
                           /\ consumed[2] = "Name[en_US.UTF-8]=x") =>
          get_localized_field(groups["Desktop Entry"], "Name", Some("en_US"))
              = Some(VString("x"))

-----------------------------------------------------------------------------
(* C28 *)

\* the `Desktop Entry` group has an Exec key with a value that is not empty
\* after trimming, of whatever classification
ExecPresentNonBlank ==
    /\ "Exec" \in DOMAIN BaseFields
    /\ BaseFields["Exec"].t = "String" => Trim(BaseFields["Exec"].s) # ""

\* C28: if the `Desktop Entry` group of a successfully parsed document has an
\* Exec key whose value is non-empty after trimming, whatever its text (a
\* command that holds `;`, a number, `true`), prepare_command never returns
\* Err(NotExecutable).
C28_ExecPresentIsExecutable ==
    (pc = "done" /\ status = "Ok" /\ ExecPresentNonBlank) => result # "NotExecutable"

-----------------------------------------------------------------------------
(* C30 *)

\* how many of get_string, get_bool, get_numeric and get_vec return Some
SomeCount(key) ==
    (IF get_string(Inner, key).some THEN 1 ELSE 0)
    + (IF get_bool(Inner, key).some THEN 1 ELSE 0)
    + (IF get_numeric(Inner, key).some THEN 1 ELSE 0)
    + (IF get_vec(Inner, key).some THEN 1 ELSE 0)

\* C30: for every key present in the base fields of the `Desktop Entry`
\* group, exactly one of get_string, get_bool, get_numeric and get_vec returns
\* Some; for a key that is absent all four return None.
C30_ExactlyOneGetter ==
    app.have =>
        \A key \in DOMAIN BaseFields \cup AccessorKeys :
            SomeCount(key) = IF key \in DOMAIN BaseFields THEN 1 ELSE 0

\* a Name that is a list: get_vec alone returns it
C30_Witness ==
    /\ consumed = <<"[Desktop Entry]", "Type=Directory", "Name=a;b">>
    /\ status = "Ok"
    /\ app.have
    /\ get_vec(Inner, "Name") = [some |-> TRUE, v |-> <<"a", "b">>]
    /\ get_string(Inner, "Name") = None
    /\ SomeCount("Exec") = 0

=============================================================================
